---- MODULE Spec2Model ----
(***************************************************************************)
(* Destructuring with default values, as the example scripts of the        *)
(* repository exercise it: array patterns, object patterns, parameter      *)
(* lists, rest collection, renaming, nested fallbacks and reassignment.    *)
(* A statement `const <pattern> = <value>` is one evaluation of a pattern  *)
(* tree against a runtime value; the operators below compute what that     *)
(* statement binds, or how it fails.                                       *)
(***************************************************************************)
EXTENDS Integers, Sequences, FiniteSets, TLC

VARIABLES
    pc,        \* "idle": between statements; "block": inside a block with let-declared targets; "source": a source variable is declared; "vars": inside Variables.js; "rejected": Variables.js stopped at an error; "done": a statement has run
    mode,      \* which kind of statement ran last: "none", "declare", "call", "calltime", "let", "swap", "assign"
    pattern,   \* the pattern (or parameter list) of the last statement
    value,     \* the value (or argument list) it was matched against; for a box or wallet, the arguments passed so far
    result,    \* the outcome of the last evaluation
    scope,     \* the bindings the last declaration / call installed (empty when it failed)
    env,       \* the let-declared variables of the current block (reassignment targets)
    count,     \* `let count = 0` of Default-Parameters.js
    output,    \* what the calls of the running script have written with console.log
    closure,   \* the local variables of the function called last (kept alive by the functions it returned)
    store      \* the var / let / const variables of Variables.js: function level, current block, last statement

vars == <<pc, mode, pattern, value, result, scope, env, count, output, closure, store>>

(***************************************************************************)
(* Bounds of the model.                                                    *)
(***************************************************************************)
MaxLen == 3        \* longest generated Sequence
MaxSlots == 2      \* most slots in a generated pattern
MaxEntries == 2    \* most entries in a generated Mapping
MaxCount == 3      \* the counter stops growing here
MaxCalls == 3      \* most successive calls in one script

(***************************************************************************)
(* Value model: undefined, null, numbers, strings, arrays, objects.        *)
(***************************************************************************)
Unset == [t |-> "Unset"]
Null == [t |-> "Null"]
Num(n) == [t |-> "Num", n |-> n]
Str(chars) == [t |-> "Str", chars |-> chars]
Sequence(elems) == [t |-> "Seq", elems |-> elems]
Mapping(entries) == [t |-> "Map", entries |-> entries]

EmptyStr == Str(<<>>)
Guest == Str(<<"G", "u", "e", "s", "t">>)
Rohan == Str(<<"R", "o", "h", "a", "n">>)
DEFAULT == Str(<<"D", "E", "F", "A", "U", "L", "T">>)
Default == Str(<<"d", "e", "f", "a", "u", "l", "t">>)
Tea == Str(<<"T", "e", "a">>)
Coffee == Str(<<"C", "o", "f", "f", "e", "e">>)
EmptySequence == Sequence(<<>>)
EmptyMapping == Mapping(<<>>)

(***************************************************************************)
(* Pattern grammar.                                                        *)
(***************************************************************************)
NoRest == "."      \* a pattern without rest slot

Binding(name) == [type |-> "Binding", name |-> name]
Renamed(name, sourceKey) == [type |-> "Renamed", name |-> name, sourceKey |-> sourceKey]
Skip == [type |-> "Skip"]
Defaulted(inner, expr) == [type |-> "Defaulted", inner |-> inner, expr |-> expr]
ArrayPattern(slots, restName) == [type |-> "ArrayPattern", slots |-> slots, rest |-> restName]
ObjectPattern(slots, restName) == [type |-> "ObjectPattern", slots |-> slots, rest |-> restName]
\* one named slot of an object pattern: `key: pat`
PropSlot(key, pat) == [key |-> key, pat |-> pat]

\* default expressions: a literal (`= "Guest"`, `= {}`), `count++`, and
\* a template reading an earlier binding (`Hello ${name}`)
ConstExpr(id, v) == [kind |-> "const", id |-> id, value |-> v]
CounterExpr(id) == [kind |-> "counter", id |-> id]
TemplateExpr(id, name) == [kind |-> "template", id |-> id, name |-> name]

(***************************************************************************)
(* Evaluation state threaded through one evaluation: the status, the       *)
(* bindings emitted so far (in order), the counter, and the log of the     *)
(* default expressions invoked so far.                                     *)
(***************************************************************************)
Start(c) == [status |-> "ok", bindings |-> <<>>, count |-> c, log |-> <<>>]
emitIfPresent(st, name, v) ==
    IF v = Unset THEN st ELSE [st EXCEPT !.bindings = Append(@, <<name, v>>)]
emit(st, name, v) == [st EXCEPT !.bindings = Append(@, <<name, v>>)]
fail(st, kind) == [st EXCEPT !.status = kind]

\* the value a name is bound to in a list of (name, value) pairs; the last pair wins
RECURSIVE lookup(_, _)
lookup(bindings, name) ==
    IF bindings = <<>> THEN Unset
    ELSE IF bindings[Len(bindings)][1] = name THEN bindings[Len(bindings)][2]
    ELSE lookup(SubSeq(bindings, 1, Len(bindings) - 1), name)

isBound(bindings, name) == \E i \in 1..Len(bindings) : bindings[i][1] = name

(***************************************************************************)
(* When a default applies: only for undefined (missing or explicit),       *)
(* never for null, 0 or "".                                                *)
(***************************************************************************)
triggersDefaultNullish(v) == v.t \in {"Unset", "Null"}
triggersDefaultFalsy(v) == v.t \in {"Unset", "Null"} \/ v = Num(0) \/ v = EmptyStr
triggersDefault(v) == v.t = "Unset"

\* the characters "Hello " of the template literal
HelloPrefix == <<"H", "e", "l", "l", "o", " ">>

\* string conversion inside a template literal: an array joins its elements
\* with "," (null and undefined elements as ""), an object is "[object Object]"
RECURSIVE toChars(_), joinChars(_, _)
toChars(v) ==
    CASE v.t = "Str" -> v.chars
      [] v.t = "Null" -> <<"n", "u", "l", "l">>
      [] v.t = "Unset" -> <<"u", "n", "d", "e", "f", "i", "n", "e", "d">>
      [] v.t = "Num" -> <<ToString(v.n)>>
      [] v.t = "NaN" -> <<"N", "a", "N">>
      [] v.t = "Seq" -> joinChars(v.elems, 1)
      [] OTHER -> <<"[", "o", "b", "j", "e", "c", "t", " ", "O", "b", "j", "e", "c", "t", "]">>
joinChars(elems, i) ==
    IF i > Len(elems) THEN <<>>
    ELSE (IF i > 1 THEN <<",">> ELSE <<>>)
         \o (IF elems[i].t \in {"Unset", "Null"} THEN <<>> ELSE toChars(elems[i]))
         \o joinChars(elems, i + 1)

\* evaluate one default expression; returns the value and the new state
evaluateDefaultLenient(expr, st) ==
    LET logged == [st EXCEPT !.log = Append(@, expr.id)] IN
    CASE expr.kind = "const" -> [value |-> expr.value, st |-> logged]
      [] expr.kind = "counter" ->
            [value |-> Num(st.count), st |-> [logged EXCEPT !.count = @ + 1]]
      [] expr.kind = "template" ->
            [value |-> Str(HelloPrefix \o toChars(lookup(st.bindings, expr.name))),
             st |-> logged]
evaluateDefault(expr, st) ==
    LET logged == [st EXCEPT !.log = Append(@, expr.id)] IN
    CASE expr.kind = "const" -> [value |-> expr.value, st |-> logged]
      [] expr.kind = "counter" ->
            [value |-> Num(st.count), st |-> [logged EXCEPT !.count = @ + 1]]
      [] expr.kind = "template" ->
            IF isBound(st.bindings, expr.name)
            THEN [value |-> Str(HelloPrefix \o toChars(lookup(st.bindings, expr.name))),
                  st |-> logged]
            ELSE [value |-> Unset, st |-> fail(logged, "ReferenceError")]

(***************************************************************************)
(* Structural access.                                                      *)
(***************************************************************************)
\* an array pattern iterates its value: arrays and strings are iterable
isIterable(v) == v.t \in {"Seq", "Str"}
\* an object pattern needs anything but undefined / null
isObjectCoercibleMapping(v) == v.t = "Map"
isObjectCoercibleNull(v) == v.t # "Unset"
isObjectCoercible(v) == v.t \notin {"Unset", "Null"}

\* the elements an array pattern iterates over
iterate(v) ==
    IF v.t = "Seq" THEN v.elems
    ELSE [i \in 1..Len(v.chars) |-> Str(<<v.chars[i]>>)]

\* the own enumerable entries of a value, in property order
ownEntries(v) ==
    CASE v.t = "Map" -> v.entries
      [] v.t = "Seq" -> [i \in 1..Len(v.elems) |-> <<ToString(i - 1), v.elems[i]>>]
      [] v.t = "Str" -> [i \in 1..Len(v.chars) |-> <<ToString(i - 1), Str(<<v.chars[i]>>)>>]
      [] OTHER -> <<>>

\* slot i (1-based) of an array pattern: the element, or undefined past the end
elementAtMissingNull(elems, i) == IF i <= Len(elems) THEN elems[i] ELSE Null
elementAtShifted(elems, i) == IF i + 1 <= Len(elems) THEN elems[i + 1] ELSE Unset
elementAt(elems, i) == IF i <= Len(elems) THEN elems[i] ELSE Unset

\* ...rest of an array pattern with n slots before it
restElementsAll(elems, n) == elems
restElements(elems, n) == SubSeq(elems, n + 1, Len(elems))

\* v[k]: the value under key k, undefined when the key is missing
getPropertyNull(entries, k) ==
    IF \E i \in 1..Len(entries) : entries[i][1] = k
    THEN entries[CHOOSE i \in 1..Len(entries) : entries[i][1] = k][2]
    ELSE Null
getProperty(entries, k) ==
    IF \E i \in 1..Len(entries) : entries[i][1] = k
    THEN entries[CHOOSE i \in 1..Len(entries) : entries[i][1] = k][2]
    ELSE Unset

\* ...rest of an object pattern: the entries whose key no named slot claims
restEntriesAll(entries, claimed) == entries
restEntries(entries, claimed) == SelectSeq(entries, LAMBDA e : e[1] \notin claimed)

slotKeys(slots) == {slots[i].key : i \in 1..Len(slots)}

\* the variable a leaf slot binds: `key` binds key, `key: target` binds target
targetNameSourceKey(pat) == IF pat.type = "Renamed" THEN pat.sourceKey ELSE pat.name
targetName(pat) == pat.name

\* a leaf slot binds whatever value it is given, undefined and null included
matchLeafStrict(pat, v, st) ==
    IF v.t \in {"Unset", "Null"} THEN fail(st, "NotDestructurable")
    ELSE emit(st, targetName(pat), v)
matchLeaf(pat, v, st) == emit(st, targetName(pat), v)

\* a hole `,` of an array pattern: the position is passed over, nothing is bound
matchSkipBinds(v, st) == emit(st, "_", v)
matchSkip(v, st) == st

(***************************************************************************)
(* The matching algorithm.                                                 *)
(***************************************************************************)
RECURSIVE evaluate(_, _, _), matchArraySlots(_, _, _, _), matchObjectSlots(_, _, _, _)
RECURSIVE matchObjectSlotsByPosition(_, _, _, _)

\* slots i.. of an array pattern against the iterated elements, left to right
matchArraySlots(slots, i, elems, st) ==
    IF i > Len(slots) \/ st.status # "ok" THEN st
    ELSE matchArraySlots(slots, i + 1, elems,
                         evaluate(slots[i], elementAt(elems, i), st))

\* slots i.. of an object pattern against the entries, in declared order
matchObjectSlotsByPosition(slots, i, entries, st) ==
    IF i > Len(slots) \/ st.status # "ok" THEN st
    ELSE matchObjectSlotsByPosition(slots, i + 1, entries,
            evaluate(slots[i].pat, IF i <= Len(entries) THEN entries[i][2] ELSE Unset, st))
matchObjectSlots(slots, i, entries, st) ==
    IF i > Len(slots) \/ st.status # "ok" THEN st
    ELSE matchObjectSlots(slots, i + 1, entries,
                          evaluate(slots[i].pat, getProperty(entries, slots[i].key), st))

evaluate(pat, v, st) ==
    IF st.status # "ok" THEN st
    ELSE CASE pat.type = "Defaulted" ->
                IF triggersDefault(v)
                THEN LET d == evaluateDefault(pat.expr, st) IN evaluate(pat.inner, d.value, d.st)
                ELSE evaluate(pat.inner, v, st)
           [] pat.type \in {"Binding", "Renamed"} -> matchLeaf(pat, v, st)
           [] pat.type = "Skip" -> matchSkip(v, st)
           [] pat.type = "ArrayPattern" ->
                IF ~isIterable(v) THEN fail(st, "NotDestructurable")
                ELSE LET elems == iterate(v)
                         after == matchArraySlots(pat.slots, 1, elems, st)
                     IN IF after.status # "ok" \/ pat.rest = NoRest THEN after
                        ELSE emit(after, pat.rest,
                                  Sequence(restElements(elems, Len(pat.slots))))
           [] pat.type = "ObjectPattern" ->
                IF ~isObjectCoercible(v) THEN fail(st, "NotDestructurable")
                ELSE LET entries == ownEntries(v)
                         after == matchObjectSlots(pat.slots, 1, entries, st)
                     IN IF after.status # "ok" \/ pat.rest = NoRest THEN after
                        ELSE emit(after, pat.rest,
                                  Mapping(restEntries(entries, slotKeys(pat.slots))))


(***************************************************************************)
(* Function calls: one pattern per declared parameter, one argument per    *)
(* position, left to right; a missing argument is undefined.               *)
(***************************************************************************)
argumentAtShifted(args, i) == IF i + 1 <= Len(args) THEN args[i + 1] ELSE Unset
argumentAtNull(args, i) == IF i <= Len(args) THEN args[i] ELSE Null
argumentAt(args, i) == IF i <= Len(args) THEN args[i] ELSE Unset

RECURSIVE bindParametersRightToLeft(_, _, _, _)
bindParametersRightToLeft(params, i, args, st) ==
    IF i > Len(params) \/ st.status # "ok" THEN st
    ELSE LET j == Len(params) + 1 - i IN
         bindParametersRightToLeft(params, i + 1, args,
                                   evaluate(params[j], argumentAt(args, j), st))
RECURSIVE bindParameters(_, _, _, _)
bindParameters(params, i, args, st) ==
    IF i > Len(params) \/ st.status # "ok" THEN st
    ELSE bindParameters(params, i + 1, args,
                        evaluate(params[i], argumentAt(args, i), st))

(***************************************************************************)
(* Installing bindings.  A declaration introduces its names only when the  *)
(* whole statement completes; an assignment pattern overwrites each        *)
(* existing target as soon as its slot is matched.                         *)
(***************************************************************************)
declaredSoFar(st) == st.bindings
declared(st) == IF st.status = "ok" THEN st.bindings ELSE <<>>

assignedKeepsOld(e, st) == e
assigned(e, st) ==
    [n \in DOMAIN e |-> IF isBound(st.bindings, n) THEN lookup(st.bindings, n) ELSE e[n]]

(***************************************************************************)
(* Patterns and functions of the example scripts.                          *)
(***************************************************************************)
\* `= {}` and `= []` on a whole pattern
OrEmptyMappingForgotten(id, p) == p
OrEmptyMapping(id, p) == Defaulted(p, ConstExpr(id, EmptyMapping))
OrEmptySequence(id, p) == Defaulted(p, ConstExpr(id, EmptySequence))
\* `key = v`
KeyDefault(key, v) == PropSlot(key, Defaulted(Binding(key), ConstExpr(key, v)))

\* const { id, ...publicProfile } = employee
EmployeePattern == ObjectPattern(<<PropSlot("id", Binding("id"))>>, "publicProfile")
\* const [firstScore, secondScore, ...restScores] = scores
ScoresPattern == ArrayPattern(<<Binding("firstScore"), Binding("secondScore")>>, "restScores")
\* the variable the pattern is matched against, and what it holds after the
\* declaration: destructuring reads the source and leaves it as it was
sourceName(p) == IF p.type = "ArrayPattern" THEN "scores" ELSE "employee"
sourceAfterEmptied(src, st) == IF src.t = "Seq" THEN EmptySequence ELSE EmptyMapping
sourceAfter(src, st) == src

\* value || fallback: the fallback replaces every falsy value
isFalsy(v) == v.t \in {"Unset", "Null", "NaN"} \/ v = Num(0) \/ v = EmptyStr
orElseUndefinedOnly(v, fallback) == IF v.t = "Unset" THEN fallback ELSE v
orElse(v, fallback) == IF isFalsy(v) THEN fallback ELSE v
\* const [safeValue = "No value"] = maybeArray || []
NoValue == Str(<<"N", "o", " ", "v", "a", "l", "u", "e">>)
SafeValuePattern ==
    ArrayPattern(<<Defaulted(Binding("safeValue"), ConstExpr("safeValue", NoValue))>>, NoRest)
\* const { a = "default" } = obj || {}
ADefaultPattern == ObjectPattern(<<KeyDefault("a", Default)>>, NoRest)
fallbackOf(p) == IF p.type = "ArrayPattern" THEN EmptySequence ELSE EmptyMapping

\* [left, right] = [right, left]
SwapPattern == ArrayPattern(<<Binding("left"), Binding("right")>>, NoRest)
swapSourceStale(e) == Sequence(<<e["right"], e["right"]>>)
swapSource(e) == Sequence(<<e["right"], e["left"]>>)

\* ({ name: nameValue, country: countryValue } = user)
ReassignPattern ==
    ObjectPattern(<<PropSlot("name", Renamed("nameValue", "name")),
                    PropSlot("country", Renamed("countryValue", "country"))>>, NoRest)

\* const [, , thirdColor] = colors
ThirdColorPattern == ArrayPattern(<<Skip, Skip, Binding("thirdColor")>>, NoRest)

\* const [data, error] = fetchResult()
DataErrorPattern == ArrayPattern(<<Binding("data"), Binding("error")>>, NoRest)
fetchResult == Sequence(<<Mapping(<<<<"id", Num(1)>>, <<"name", Rohan>>>>), Null>>)
\* the tuples such a function returns: [data, null] or [null, error]
ResultTuples ==
    {fetchResult, Sequence(<<Null, Mapping(<<<<"name", Rohan>>>>)>>),
     Sequence(<<Unset, Null>>), Sequence(<<EmptySequence>>)}

\* const { user: { profile: { name = "Unknown" } = {} } = {} } = data
Unknown == Str(<<"U", "n", "k", "n", "o", "w", "n">>)
SafeDataPattern ==
    ObjectPattern(<<PropSlot("user", OrEmptyMapping("user",
        ObjectPattern(<<PropSlot("profile", OrEmptyMapping("profile",
            ObjectPattern(<<KeyDefault("name", Unknown)>>, NoRest)))>>, NoRest)))>>, NoRest)

\* const { user: { name, settings: { theme = "light" } = {} } } = profileData
Light == Str(<<"l", "i", "g", "h", "t">>)
Dark == Str(<<"d", "a", "r", "k">>)
ProfileDataPattern ==
    ObjectPattern(<<PropSlot("user",
        ObjectPattern(<<PropSlot("name", Binding("name")),
                        PropSlot("settings", OrEmptyMapping("settings",
                            ObjectPattern(<<KeyDefault("theme", Light)>>, NoRest)))>>,
                      NoRest))>>, NoRest)
\* profileData: a user with a name, the settings missing, undefined, null or given
SettingsValues == {Unset, Null, EmptyMapping, Mapping(<<<<"theme", Dark>>>>),
                   Mapping(<<<<"theme", Unset>>>>)}
ProfileDataValues ==
    {Mapping(<<<<"user", Mapping(<<<<"name", Rohan>>>>)>>>>), EmptyMapping}
    \cup {Mapping(<<<<"user", Mapping(<<<<"name", Rohan>>, <<"settings", t>>>>)>>>>)
           : t \in SettingsValues}

\* const { user: { profile: { name } } } = badData
BadDataPattern ==
    ObjectPattern(<<PropSlot("user",
        ObjectPattern(<<PropSlot("profile",
            ObjectPattern(<<PropSlot("name", Binding("name"))>>, NoRest))>>, NoRest))>>, NoRest)

\* function greet([name = "Guest"])
greet == [name |-> "greet",
          params |-> <<ArrayPattern(<<Defaulted(Binding("name"), ConstExpr("name", Guest))>>, NoRest)>>]
\* function greetUser({ name = "Guest" })
greetUser == [name |-> "greetUser",
              params |-> <<ObjectPattern(<<KeyDefault("name", Guest)>>, NoRest)>>]
\* function safeGreet({ name = "Guest" } = {})
safeGreet == [name |-> "safeGreet",
              params |-> <<OrEmptyMapping("param", ObjectPattern(<<KeyDefault("name", Guest)>>, NoRest))>>]
\* function safeGreet2({ name } = {})
safeGreet2 == [name |-> "safeGreet2",
               params |-> <<OrEmptyMapping("param",
                                ObjectPattern(<<PropSlot("name", Binding("name"))>>, NoRest))>>]
\* function showTitle({ title })
showTitle == [name |-> "showTitle",
              params |-> <<ObjectPattern(<<PropSlot("title", Binding("title"))>>, NoRest)>>]
\* function showProfile({ name: fullName = "Unknown", role = "Student" } = {})
Student == Str(<<"S", "t", "u", "d", "e", "n", "t">>)
ShowProfilePattern ==
    ObjectPattern(<<PropSlot("name", Defaulted(Renamed("fullName", "name"),
                                               ConstExpr("fullName", Unknown))),
                    KeyDefault("role", Student)>>, NoRest)
showProfile == [name |-> "showProfile", params |-> <<OrEmptyMapping("param", ShowProfilePattern)>>]
\* function connectDatabase({ db: { host, port = 5432 } = {} } = {})
DefaultPort == 5432
connectDatabase ==
    [name |-> "connectDatabase",
     params |-> <<OrEmptyMapping("param",
         ObjectPattern(<<PropSlot("db", OrEmptyMapping("db",
             ObjectPattern(<<PropSlot("host", Binding("host")),
                             KeyDefault("port", Num(DefaultPort))>>, NoRest)))>>, NoRest))>>]
\* function test(a = "default")
test == [name |-> "test",
         params |-> <<Defaulted(Binding("a"), ConstExpr("a", Default))>>]
\* function testCallTime(value = count++)
testCallTime == [name |-> "testCallTime",
                 params |-> <<Defaulted(Binding("value"), CounterExpr("value"))>>]
\* function introduceModern(name = "Guest", age = 18)
DefaultAge == 18
introduceModern ==
    [name |-> "introduceModern",
     params |-> <<Defaulted(Binding("name"), ConstExpr("name", Guest)),
                  Defaulted(Binding("age"), ConstExpr("age", Num(DefaultAge)))>>]
\* function calculateTotal(price, tax = 5)
DefaultTax == 5
calculateTotal ==
    [name |-> "calculateTotal",
     params |-> <<Binding("price"), Defaulted(Binding("tax"), ConstExpr("tax", Num(DefaultTax)))>>]
\* const total = price + (price * tax) / 100, for the amounts the script
\* passes; in arithmetic null counts as 0 and undefined gives NaN
NaN == [t |-> "NaN"]
isNumeric(v) == v.t \in {"Num", "Null"}
toNumber(v) == IF v.t = "Num" THEN v.n ELSE 0
Total(price, tax) ==
    IF isNumeric(price) /\ isNumeric(tax)
    THEN Num(toNumber(price) + (toNumber(price) * toNumber(tax)) \div 100)
    ELSE NaN
\* function welcome(name, greeting = `Hello ${name}`)
welcome == [name |-> "welcome",
            params |-> <<Binding("name"),
                         Defaulted(Binding("greeting"), TemplateExpr("greeting", "name"))>>]
\* the same default written before the parameter it reads:
\* function (greeting = `Hello ${name}`, name) and (..., name = "Guest")
GreetingFirst ==
    {[name |-> "greetingFirst",
      params |-> <<Defaulted(Binding("greeting"), TemplateExpr("greeting", "name")), p>>]
     : p \in {Binding("name"), Defaulted(Binding("name"), ConstExpr("name", Guest))}}

\* function getMinMax(arr): min and max start from arr[0]; every n of arr
\* lowers min or raises max; the locals at the return are arr, min and max
updateMinWrongWay(min, n) == IF n.n > min.n THEN n ELSE min
updateMin(min, n) == IF n.n < min.n THEN n ELSE min
updateMax(max, n) == IF n.n > max.n THEN n ELSE max
RECURSIVE minMaxLoop(_, _, _, _)
minMaxLoop(elems, i, min, max) ==
    IF i > Len(elems) THEN [min |-> min, max |-> max]
    ELSE minMaxLoop(elems, i + 1, updateMin(min, elems[i]), updateMax(max, elems[i]))
getMinMax(arr) ==
    LET first == elementAt(arr.elems, 1)
        last == minMaxLoop(arr.elems, 1, first, first)
    IN [locals |-> [n \in {"arr", "min", "max"} |->
                       CASE n = "arr" -> arr [] n = "min" -> last.min [] n = "max" -> last.max],
        returned |-> Sequence(<<last.min, last.max>>)]
\* const [minValue, maxValue] = getMinMax([3, 10, 1, 8])
MinMaxPattern == ArrayPattern(<<Binding("minValue"), Binding("maxValue")>>, NoRest)

\* a function value, and one console.log("label", value) line
Fun(name) == [t |-> "Fun", name |-> name]
Line(label, v) == [t |-> "Line", label |-> label, value |-> v]

\* function createBox(initialValue): let value = initialValue;
\* return [value, updateValue]
createBox(initialValue) ==
    [locals |-> [n \in {"value"} |-> initialValue],
     returned |-> Sequence(<<initialValue, Fun("updateValue")>>)]
\* function updateValue(newValue) { value = newValue; ... }
updateValueIgnored(held, newValue) == held
updateValue(held, newValue) == newValue
\* const [boxValue, updateBox] = createBox(50)
BoxPattern == ArrayPattern(<<Binding("boxValue"), Binding("updateBox")>>, NoRest)

\* function createWallet(startAmount): let balance = startAmount;
\* return [balance, addMoney]
createWallet(startAmount) ==
    [locals |-> [n \in {"balance"} |-> startAmount],
     returned |-> Sequence(<<startAmount, Fun("addMoney")>>)]
\* function addMoney(amount) { balance += amount; ... }
addMoneyReplaces(balance, amount) == amount
addMoney(balance, amount) == Num(balance.n + amount.n)
\* const [balance, addMoney] = createWallet(100)
WalletPattern == ArrayPattern(<<Binding("balance"), Binding("addMoney")>>, NoRest)

\* the variables a statement declared stay as they are while the functions
\* it received are called: a number was copied into them
afterCallLive(sc, v) == [sc EXCEPT ![1] = <<sc[1][1], v>>]
afterCall(sc, v) == sc

\* the calls of lines 187-189, after `let count = 0`
callTimeCalls == <<test, test, test>>

\* what the body of a function writes with console.log, given its parameters
Hello(v) == Str(HelloPrefix \o toChars(v))
Introduction(n, a) ==
    Str(<<"H", "i", ",", " ", "I", "'", "m", " ">> \o toChars(n)
        \o <<" ", "a", "n", "d", " ", "I", "'", "m", " ">> \o toChars(a)
        \o <<" ", "y", "e", "a", "r", "s", " ", "o", "l", "d", ".">>)
consoleLog(f, bs) ==
    CASE f.name \in {"greet", "greetUser", "safeGreet"} -> <<Hello(lookup(bs, "name"))>>
      [] f.name = "safeGreet2" -> <<lookup(bs, "name")>>
      [] f.name = "showTitle" -> <<lookup(bs, "title")>>
      [] f.name = "showProfile" -> <<lookup(bs, "fullName"), lookup(bs, "role")>>
      [] f.name = "connectDatabase" -> <<lookup(bs, "host"), lookup(bs, "port")>>
      [] f.name = "test" -> <<lookup(bs, "a")>>
      [] f.name = "testCallTime" -> <<lookup(bs, "value")>>
      [] f.name = "introduceModern" -> <<Introduction(lookup(bs, "name"), lookup(bs, "age"))>>
      [] f.name \in {"welcome", "greetingFirst"} -> <<lookup(bs, "greeting")>>
      [] f.name = "calculateTotal" -> <<Total(lookup(bs, "price"), lookup(bs, "tax"))>>
      [] OTHER -> <<>>

SourceFunctions ==
    {greet, greetUser, safeGreet, safeGreet2, showProfile, connectDatabase, test,
     testCallTime, introduceModern, calculateTotal, welcome}

(***************************************************************************)
(* Inputs: the values and patterns the statements are run on.              *)
(***************************************************************************)
\* element values: undefined, null, 0, "", a non-empty string
Elem == {Unset, Null, Num(0), EmptyStr, Rohan}
\* property values of generated objects
MapElem == {Unset, Null, Num(0)}

SeqsOver(S, n) == UNION {[1..k -> S] : k \in 0..n}
Sequences == {Sequence(s) : s \in SeqsOver(Elem, MaxLen)}

Keys == {"name", "age", "country"}
Injective(f) == \A i, j \in DOMAIN f : f[i] = f[j] => i = j
KeyOrders(n) == UNION {{ks \in [1..k -> Keys] : Injective(ks)} : k \in 0..n}
Mappings ==
    UNION {{Mapping([i \in DOMAIN ks |-> <<ks[i], vs[i]>>]) : vs \in [DOMAIN ks -> MapElem]}
           : ks \in KeyOrders(MaxEntries)}

\* the names generated array patterns bind, by position
SlotNames == <<"first", "second", "third", "fourth", "fifth">>
RestName == "rest"

\* the kinds of leaf slot: a hole, `x`, `x = "DEFAULT"`
ArraySlotKinds == {"skip", "bind", "default"}
ArraySlot(kind, name) ==
    CASE kind = "skip" -> Skip
      [] kind = "bind" -> Binding(name)
      [] kind = "default" -> Defaulted(Binding(name), ConstExpr(name, DEFAULT))

ArrayPatterns ==
    UNION {{ArrayPattern([i \in 1..n |-> ArraySlot(ks[i], SlotNames[i])], r)
            : ks \in [1..n -> ArraySlotKinds], r \in {NoRest, RestName}}
           : n \in 0..MaxSlots}

\* `key`, `key: keyValue`, `key = "DEFAULT"`
ObjectSlotKinds == {"bind", "rename", "default"}
Target(key) ==
    CASE key = "name" -> "nameValue"
      [] key = "age" -> "ageValue"
      [] key = "country" -> "countryValue"
ObjectSlot(kind, key) ==
    CASE kind = "bind" -> PropSlot(key, Binding(key))
      [] kind = "rename" -> PropSlot(key, Renamed(Target(key), key))
      [] kind = "default" -> KeyDefault(key, DEFAULT)

ObjectPatterns ==
    UNION {{ObjectPattern([i \in DOMAIN ks |-> ObjectSlot(kinds[i], ks[i])], r)
            : kinds \in [DOMAIN ks -> ObjectSlotKinds], r \in {NoRest, RestName}}
           : ks \in KeyOrders(MaxSlots)}

\* object patterns whose defaults are `count++`: { name = count++, age = count++ }
CounterPatterns ==
    {ObjectPattern([i \in DOMAIN ks |->
                       PropSlot(ks[i], Defaulted(Binding(ks[i]), CounterExpr(ks[i])))], NoRest)
     : ks \in KeyOrders(MaxSlots) \ {<<>>}}

\* one level of nesting: { name, db: <inner> } and { db: <inner> }, the inner
\* pattern bare or with a `= {}` / `= []` fallback
InnerPatterns ==
    {ObjectPattern(<<PropSlot("host", Binding("host"))>>, NoRest),
     ObjectPattern(<<KeyDefault("port", Num(DefaultPort))>>, NoRest),
     ArrayPattern(<<Binding("host")>>, NoRest)}
NestedSlots ==
    {PropSlot("db", q) : q \in InnerPatterns}
    \cup {PropSlot("db", OrEmptyMapping("db", q)) : q \in InnerPatterns}
    \cup {PropSlot("db", OrEmptySequence("db", q)) : q \in InnerPatterns}
NestedPatterns ==
    {ObjectPattern(<<s>>, NoRest) : s \in NestedSlots}
    \cup {ObjectPattern(<<PropSlot("name", Binding("name")), s>>, NoRest) : s \in NestedSlots}
    \cup {BadDataPattern, SafeDataPattern}

\* the values nested patterns are matched against
InnerValues ==
    MapElem \cup {EmptyMapping, Mapping(<<<<"host", Rohan>>>>), Sequence(<<Rohan>>)}
NestedValues ==
    {EmptyMapping}
    \cup {Mapping(<<<<"db", d>>>>) : d \in InnerValues}
    \cup {Mapping(<<<<"name", Rohan>>, <<"db", d>>>>) : d \in InnerValues}
    \cup {Mapping(<<<<"user", u>>>>) :
            u \in MapElem \cup {EmptyMapping}
                 \cup {Mapping(<<<<"profile", q>>>>) :
                         q \in MapElem \cup {EmptyMapping, Mapping(<<<<"name", Rohan>>>>),
                                             Mapping(<<<<"name", Null>>>>),
                                             Mapping(<<<<"name", Unset>>>>)}}}

\* the values a declaration matches a pattern against
DeclValues(p) ==
    CASE p \in ArrayPatterns -> Sequences \cup Elem \cup {EmptyMapping}
      [] p = ThirdColorPattern -> Sequences
      [] p = DataErrorPattern -> ResultTuples
      [] p = ProfileDataPattern -> ProfileDataValues
      [] p \in ObjectPatterns -> Mappings \cup Elem \cup {EmptySequence, Sequence(<<Rohan>>)}
      [] p \in CounterPatterns -> Mappings
      [] OTHER -> NestedValues \cup {Unset, Null}

SourcePatterns == {ThirdColorPattern, DataErrorPattern, ProfileDataPattern}
DeclPatterns ==
    ArrayPatterns \cup ObjectPatterns \cup CounterPatterns \cup NestedPatterns
    \cup SourcePatterns

\* calls: the functions of the scripts, and f(<object pattern> = {}) for the
\* generated object patterns
MaxArgs == 2
ArgValues == Elem \cup {EmptyMapping, EmptySequence, Mapping(<<<<"name", Rohan>>>>),
                        Mapping(<<<<"name", Null>>>>), Sequence(<<Null>>)}
SafeFunctions ==
    {[name |-> "safe", params |-> <<OrEmptyMapping("param", p)>>]
     : p \in ObjectPatterns \cup NestedPatterns}
    \cup {[name |-> "safe", params |-> <<OrEmptySequence("param", p)>>] : p \in ArrayPatterns}
SafeArgs == {<<>>, <<Unset>>, <<Null>>, <<EmptyMapping>>}
\* showProfile takes one object: showProfile({ name: "Ayesha" })
ProfileArgs == {<<>>} \cup {<<m>> : m \in Mappings \cup {Unset, Null}}
\* calculateTotal takes amounts: calculateTotal(100), calculateTotal(100, 10)
Amounts == {Num(0), Num(100)}
Rates == {Unset, Num(0), Num(10)}
TotalArgs == {<<a>> : a \in Amounts} \cup {<<a, t>> : a \in Amounts, t \in Rates}
\* greet takes one array: greet([]), greet([undefined]), greet([null]), greet(["Rohan"])
GreetArgs == {<<Sequence(s)>> : s \in SeqsOver({Unset, Null, Rohan}, 1)}
\* what employee and scores may hold
Ayesha == Str(<<"A", "y", "e", "s", "h", "a">>)
Developer == Str(<<"D", "e", "v", "e", "l", "o", "p", "e", "r">>)
EmployeeEntries == {<<"id", Num(101)>>, <<"name", Ayesha>>, <<"role", Developer>>}
Employees ==
    {Mapping(es) : es \in {e \in SeqsOver(EmployeeEntries, MaxEntries + 1) : Injective(e)}}
Scores == {Sequence(s) : s \in SeqsOver({Num(80), Num(90)}, MaxLen)}
SourceValues(p) == IF p.type = "ArrayPattern" THEN Scores ELSE Employees
RestPatterns == {EmployeePattern, ScoresPattern}
\* what maybeArray / obj may hold
GuardedPatterns == {SafeValuePattern, ADefaultPattern}
GuardedValues ==
    Elem \cup {NaN, Num(10), EmptySequence, EmptyMapping, Sequence(<<Rohan>>), Sequence(<<Unset>>),
               Mapping(<<<<"a", Rohan>>>>), Mapping(<<<<"a", Null>>>>)}
\* showTitle({ title: "ES6 Course", level: "Beginner" })
ES6Course == Str(<<"E", "S", "6", " ", "C", "o", "u", "r", "s", "e">>)
Beginner == Str(<<"B", "e", "g", "i", "n", "n", "e", "r">>)
TitleArgs ==
    {<<Mapping(<<<<"title", ES6Course>>, <<"level", Beginner>>>>)>>,
     <<Mapping(<<<<"level", Beginner>>, <<"title", ES6Course>>>>)>>,
     <<Mapping(<<<<"title", ES6Course>>>>)>>,
     <<Mapping(<<<<"level", Beginner>>>>)>>,
     <<EmptyMapping>>, <<>>}
GreetingFirstArgs == SeqsOver({Unset, Null, Rohan}, 2)
CallArgs(f) ==
    CASE f = showProfile -> ProfileArgs
      [] f = calculateTotal -> TotalArgs
      [] f = greet -> SeqsOver(ArgValues, MaxArgs) \cup GreetArgs
      [] f \in SourceFunctions \ {showProfile, calculateTotal, greet} -> SeqsOver(ArgValues, MaxArgs)
      [] f \in GreetingFirst -> GreetingFirstArgs
      [] f = showTitle -> TitleArgs
      [] OTHER -> SafeArgs
Functions == SourceFunctions \cup SafeFunctions \cup GreetingFirst \cup {showTitle}

\* arrays of numbers passed to getMinMax, [3, 10, 1, 8] among them
Numbers == {Num(1), Num(3), Num(8), Num(10)}
NumberArrays ==
    {Sequence(s) : s \in SeqsOver(Numbers, MaxLen)}
    \cup {Sequence(<<Num(3), Num(10), Num(1), Num(8)>>)}

\* what a box holds, what a wallet starts with, what is added to it
BoxValues == {Num(50), Num(75), Null}
StartAmounts == {Num(0), Num(100)}
AddedAmounts == {Num(0), Num(50)}

\* blocks with let-declared variables, then assigned by a pattern
LetValues == {Tea, Coffee, Null}
OldName == Str(<<"O", "l", "d", "N", "a", "m", "e">>)
OldCountry == Str(<<"O", "l", "d", "C", "o", "u", "n", "t", "r", "y">>)
BlockEnvs ==
    {[n \in {"left", "right"} |-> IF n = "left" THEN a ELSE b] : a, b \in LetValues}
    \cup {[n \in {"nameValue", "countryValue"} |->
              IF n = "nameValue" THEN OldName ELSE OldCountry]}

\* the assignment patterns over left / right, and the values they take
LeftRightPatterns ==
    {SwapPattern,
     ArrayPattern(<<Binding("left"), ArrayPattern(<<Binding("right")>>, NoRest)>>, NoRest),
     ArrayPattern(<<Defaulted(Binding("left"), ConstExpr("left", DEFAULT))>>, "right")}
LeftRightValues ==
    {Sequence(s) : s \in SeqsOver(Elem \cup {EmptySequence, Sequence(<<Rohan>>)}, 2)}
\* the assignment patterns over nameValue / countryValue
NameCountryPatterns ==
    {ReassignPattern,
     ObjectPattern(<<PropSlot("name", Renamed("nameValue", "name")),
                     PropSlot("country",
                         ObjectPattern(<<PropSlot("code", Renamed("countryValue", "code"))>>,
                                       NoRest))>>, NoRest)}
NameCountryValues ==
    Mappings \cup {Unset, Null}
    \cup {Mapping(<<<<"name", Rohan>>, <<"country", Mapping(<<<<"code", Num(0)>>>>)>>>>)}

(***************************************************************************)
(* var, let and const.  A variable lives at function level or in the       *)
(* current block; var always declares at function level.                   *)
(***************************************************************************)
VarNames == {"score"}
VarValues == {Num(10), Num(20)}
Kinds == {"var", "let", "const"}
Lexical == {"let", "const"}
NoVar == [kind |-> "none", value |-> Unset]
NoStatement == [op |-> "none"]
EmptyStore ==
    [fn |-> [n \in VarNames |-> NoVar], blk |-> [n \in VarNames |-> NoVar],
     inBlock |-> FALSE, last |-> NoStatement, error |-> "none"]

\* var name = v: redeclaring a var overwrites it; a let / const of that name
\* in the same scope makes it a SyntaxError
declareVar(st, name, v) ==
    IF st.fn[name].kind \in Lexical \/ (st.inBlock /\ st.blk[name].kind \in Lexical)
    THEN [st EXCEPT !.error = "SyntaxError"]
    ELSE [st EXCEPT !.fn[name] = [kind |-> "var", value |-> v],
                    !.blk[name] = IF st.inBlock THEN [kind |-> "var", value |-> Unset] ELSE @]
\* let / const name = v: a second declaration of the name in the same scope
\* is a SyntaxError
declareLexical(st, kind, name, v) ==
    IF st.inBlock
    THEN IF st.blk[name].kind # "none" THEN [st EXCEPT !.error = "SyntaxError"]
         ELSE [st EXCEPT !.blk[name] = [kind |-> kind, value |-> v]]
    ELSE IF st.fn[name].kind # "none" THEN [st EXCEPT !.error = "SyntaxError"]
         ELSE [st EXCEPT !.fn[name] = [kind |-> kind, value |-> v]]
declareInAlwaysVar(st, kind, name, v) == declareVar(st, name, v)
declareIn(st, kind, name, v) ==
    IF kind = "var" THEN declareVar(st, name, v) ELSE declareLexical(st, kind, name, v)

\* the variable a name refers to: the block's let / const, else the function-level one
shadowed(st, name) == st.inBlock /\ st.blk[name].kind \in Lexical
resolve(st, name) == IF shadowed(st, name) THEN st.blk[name] ELSE st.fn[name]

\* name = v: a const cannot be reassigned
assignTo(st, name, v) ==
    IF resolve(st, name).kind = "const" THEN [st EXCEPT !.error = "TypeError"]
    ELSE IF shadowed(st, name) THEN [st EXCEPT !.blk[name].value = v]
    ELSE [st EXCEPT !.fn[name].value = v]

\* } : the let / const variables of the block are gone
leaveBlock(st) == [st EXCEPT !.blk = [n \in VarNames |-> NoVar], !.inBlock = FALSE]

(***************************************************************************)
(* The statements.                                                         *)
(***************************************************************************)
NoResult == [status |-> "none", bindings |-> <<>>, count |-> 0, log |-> <<>>]

Init ==
    /\ pc = "idle"
    /\ mode = "none"
    /\ pattern = Skip
    /\ value = Unset
    /\ result = NoResult
    /\ scope = <<>>
    /\ env = <<>>
    /\ count = 0
    /\ output = <<>>
    /\ closure = <<>>
    /\ store = EmptyStore

\* const <p> = <v>;
Declare ==
    /\ pc = "idle"
    /\ \E p \in DeclPatterns : \E v \in DeclValues(p) :
          LET r == evaluate(p, v, Start(count)) IN
          /\ r.count <= MaxCount
          /\ pattern' = p
          /\ value' = v
          /\ result' = r
          /\ scope' = declared(r)
          /\ count' = r.count
    /\ pc' = "done"
    /\ mode' = "declare"
    /\ UNCHANGED <<env, output, closure, store>>

\* f(...args): the parameters are bound, then the body runs with them; a
\* call that fails to bind its parameters throws before the body
CallWith(f, args, m) ==
    LET r == bindParameters(f.params, 1, args, Start(count)) IN
    /\ r.count <= MaxCount
    /\ pattern' = f
    /\ value' = args
    /\ result' = r
    /\ scope' = declared(r)
    /\ count' = r.count
    /\ output' = (IF r.status = "ok" THEN output \o consoleLog(f, r.bindings) ELSE output)
    /\ pc' = "done"
    /\ mode' = m
    /\ UNCHANGED <<env, closure, store>>

Call ==
    /\ pc = "idle"
    /\ \E f \in Functions : \E args \in CallArgs(f) : CallWith(f, args, "call")

\* the next call of the same function, with or without an argument
CallAgain ==
    /\ pc = "done"
    /\ mode = "call"
    /\ pattern \in {test, testCallTime}
    /\ Len(output) < MaxCalls
    /\ \E args \in {<<>>, <<Null>>, <<Num(0)>>} : CallWith(pattern, args, "call")

\* let count = 0; ... test(); test(); test();  (lines 181-189)
CallTime ==
    /\ pc = "idle" \/ (pc = "done" /\ mode = "calltime")
    /\ Len(output) < Len(callTimeCalls)
    /\ CallWith(callTimeCalls[Len(output) + 1], <<>>, "calltime")

\* const [minValue, maxValue] = getMinMax(arr);
MinMax ==
    /\ pc = "idle"
    /\ \E arr \in NumberArrays :
          LET call == getMinMax(arr)
              r == evaluate(MinMaxPattern, call.returned, Start(count))
          IN /\ pattern' = MinMaxPattern
             /\ value' = <<arr>>
             /\ result' = r
             /\ scope' = declared(r)
             /\ closure' = call.locals
    /\ pc' = "done"
    /\ mode' = "minmax"
    /\ UNCHANGED <<env, count, output, store>>

\* const [first, update] = create(v); for createBox and createWallet
Create(make, p, v, m) ==
    LET call == make
        r == evaluate(p, call.returned, Start(count))
    IN /\ pc = "idle"
       /\ pattern' = p
       /\ value' = <<v>>
       /\ result' = r
       /\ scope' = declared(r)
       /\ closure' = call.locals
       /\ pc' = "done"
       /\ mode' = m
       /\ UNCHANGED <<env, count, output, store>>

\* const [boxValue, updateBox] = createBox(v);
CreateBox == \E v \in BoxValues : Create(createBox(v), BoxPattern, v, "box")

\* updateBox(n);
UpdateBox ==
    /\ pc = "done"
    /\ mode = "box"
    /\ Len(output) < MaxCalls
    /\ \E n \in BoxValues :
          LET new == updateValue(closure["value"], n) IN
          /\ closure' = [closure EXCEPT !["value"] = new]
          /\ output' = Append(output, Line("Box value updated to:", new))
          /\ scope' = afterCall(scope, new)
          /\ value' = Append(value, n)
    /\ UNCHANGED <<pc, mode, pattern, result, env, count, store>>

\* const [balance, addMoney] = createWallet(s);
CreateWallet == \E s \in StartAmounts : Create(createWallet(s), WalletPattern, s, "wallet")

\* addMoney(a);
AddMoney ==
    /\ pc = "done"
    /\ mode = "wallet"
    /\ Len(output) < MaxCalls
    /\ \E a \in AddedAmounts :
          LET new == addMoney(closure["balance"], a) IN
          /\ closure' = [closure EXCEPT !["balance"] = new]
          /\ output' = Append(output, Line("New balance:", new))
          /\ scope' = afterCall(scope, new)
          /\ value' = Append(value, a)
    /\ UNCHANGED <<pc, mode, pattern, result, env, count, store>>

\* const employee = { id: 101, ... };   const scores = [80, 90, 75, 60];
DeclareSource ==
    /\ pc = "idle"
    /\ \E p \in RestPatterns : \E v \in SourceValues(p) :
          /\ pattern' = p
          /\ env' = [n \in {sourceName(p)} |-> v]
    /\ pc' = "source"
    /\ mode' = "source"
    /\ UNCHANGED <<value, result, scope, count, output, closure, store>>

\* const { id, ...publicProfile } = employee;
DestructureSource ==
    /\ pc = "source"
    /\ LET src == env[sourceName(pattern)]
           r == evaluate(pattern, src, Start(count))
       IN /\ value' = src
          /\ result' = r
          /\ scope' = declared(r)
          /\ count' = r.count
          /\ env' = [env EXCEPT ![sourceName(pattern)] = sourceAfter(src, r)]
    /\ pc' = "done"
    /\ UNCHANGED <<mode, pattern, output, closure, store>>

\* const safeArray = maybeArray || []; const [safeValue = "No value"] = safeArray;
GuardedDeclare ==
    /\ pc = "idle"
    /\ \E p \in GuardedPatterns : \E v \in GuardedValues :
          LET r == evaluate(p, orElse(v, fallbackOf(p)), Start(count)) IN
          /\ pattern' = p
          /\ value' = v
          /\ result' = r
          /\ scope' = declared(r)
          /\ count' = r.count
    /\ pc' = "done"
    /\ mode' = "guard"
    /\ UNCHANGED <<env, output, closure, store>>

\* one statement of Variables.js has run; an error ends the script
Ran(st, stmt) ==
    /\ store' = [st EXCEPT !.last = stmt]
    /\ pc' = IF st.error = "none" THEN "vars" ELSE "rejected"
    /\ mode' = "vars"
    /\ UNCHANGED <<pattern, value, result, scope, env, count, output, closure>>
Running == pc = "vars" \/ (pc = "idle" /\ store = EmptyStore)

\* var / let / const name = v;
DeclareVariable ==
    /\ Running
    /\ \E kind \in Kinds, name \in VarNames, v \in VarValues :
          Ran(declareIn(store, kind, name, v),
              [op |-> "declare", kind |-> kind, name |-> name, value |-> v])

\* name = v;
AssignVariable ==
    /\ Running
    /\ \E name \in VarNames, v \in VarValues :
          /\ resolve(store, name).kind # "none"
          /\ Ran(assignTo(store, name, v), [op |-> "assign", name |-> name, value |-> v])

\* if (true) {
EnterIf ==
    /\ Running
    /\ ~store.inBlock
    /\ Ran([store EXCEPT !.inBlock = TRUE], [op |-> "enter"])

\* }
LeaveIf ==
    /\ Running
    /\ store.inBlock
    /\ Ran(leaveBlock(store), [op |-> "leave"])

\* { let left = a; let right = b; ...
EnterBlock ==
    /\ pc = "idle"
    /\ \E e \in BlockEnvs : env' = e
    /\ pc' = "block"
    /\ mode' = "let"
    /\ UNCHANGED <<pattern, value, result, scope, count, output, closure, store>>

AssignWith(p, v, m) ==
    LET r == evaluate(p, v, Start(count)) IN
    /\ pattern' = p
    /\ value' = v
    /\ result' = r
    /\ env' = assigned(env, r)
    /\ count' = r.count
    /\ pc' = "done"
    /\ mode' = m
    /\ UNCHANGED <<scope, output, closure, store>>

\* [left, right] = [right, left];
Swap ==
    /\ pc = "block"
    /\ "left" \in DOMAIN env
    /\ AssignWith(SwapPattern, swapSource(env), "swap")

\* (<p> = <v>); with the targets of p declared in the block
Assign ==
    /\ pc = "block"
    /\ \/ /\ "left" \in DOMAIN env
          /\ \E p \in LeftRightPatterns : \E v \in LeftRightValues : AssignWith(p, v, "assign")
       \/ /\ "nameValue" \in DOMAIN env
          /\ \E p \in NameCountryPatterns : \E v \in NameCountryValues : AssignWith(p, v, "assign")

\* the script is over
Finish ==
    /\ pc \in {"done", "vars", "rejected"}
    /\ pc' = "idle"
    /\ mode' = "none"
    /\ pattern' = Skip
    /\ value' = Unset
    /\ result' = NoResult
    /\ scope' = <<>>
    /\ env' = <<>>
    /\ count' = 0
    /\ output' = <<>>
    /\ closure' = <<>>
    /\ store' = EmptyStore

Next ==
    \/ Declare
    \/ Call
    \/ CallAgain
    \/ CallTime
    \/ MinMax
    \/ CreateBox
    \/ UpdateBox
    \/ CreateWallet
    \/ AddMoney
    \/ DeclareSource
    \/ DestructureSource
    \/ GuardedDeclare
    \/ DeclareVariable
    \/ AssignVariable
    \/ EnterIf
    \/ LeaveIf
    \/ EnterBlock
    \/ Swap
    \/ Assign
    \/ Finish

Spec == Init /\ [][Next]_vars

(***************************************************************************)
(* Properties.  The helpers below read a finished statement: what a slot   *)
(* was matched against, what a name ended up bound to, how often a         *)
(* default expression ran.                                                 *)
(***************************************************************************)
Has(bs, n) == \E i \in 1..Len(bs) : bs[i][1] = n
ValueOf(bs, n) == bs[CHOOSE i \in 1..Len(bs) : bs[i][1] = n][2]
Times(log, id) == Cardinality({i \in 1..Len(log) : log[i] = id})
IndexIn(log, id) == CHOOSE i \in 1..Len(log) : log[i] = id
ElementOf(v, i) == IF i \in DOMAIN v.elems THEN v.elems[i] ELSE Unset
HasKey(v, k) == \E i \in DOMAIN v.entries : v.entries[i][1] = k
Under(v, k) ==
    IF HasKey(v, k) THEN v.entries[CHOOSE i \in DOMAIN v.entries : v.entries[i][1] = k][2]
    ELSE Unset
IsLeaf(p) == p.type \in {"Binding", "Renamed"}
IsDefaultedLeaf(p) == p.type = "Defaulted" /\ IsLeaf(p.inner)

Done == pc = "done"
DeclaredArray == Done /\ mode = "declare" /\ pattern.type = "ArrayPattern" /\ value.t = "Seq"
DeclaredObject == Done /\ mode = "declare" /\ pattern.type = "ObjectPattern" /\ value.t = "Map"
Called == Done /\ mode = "call"

\* what a literal or `count++` default evaluates to, given where it ran in the log
DefaultResult(expr) ==
    IF expr.kind = "const" THEN expr.value
    ELSE Num(result.count - Len(result.log) + IndexIn(result.log, expr.id) - 1)

\* the rule of one defaulted slot matched against m
DefaultRule(slot, m) ==
    LET k == Times(result.log, slot.expr.id) IN
    /\ k = (IF m = Unset THEN 1 ELSE 0)
    /\ IsLeaf(slot.inner) /\ slot.expr.kind # "template" =>
          /\ Has(result.bindings, slot.inner.name)
          /\ ValueOf(result.bindings, slot.inner.name) =
                (IF m = Unset THEN DefaultResult(slot.expr) ELSE m)

\* C1: a defaulted slot of an array pattern, an object pattern or a parameter
\* list runs its default exactly once when it is matched against undefined and
\* binds the result; against null, 0, "" or any other present value the default
\* does not run and the value itself is bound.
C1_DefaultOnlyForUnset ==
    /\ DeclaredArray /\ result.status = "ok" =>
          \A i \in DOMAIN pattern.slots :
             pattern.slots[i].type = "Defaulted" =>
                DefaultRule(pattern.slots[i], ElementOf(value, i))
    /\ DeclaredObject /\ result.status = "ok" =>
          \A i \in DOMAIN pattern.slots :
             pattern.slots[i].pat.type = "Defaulted" =>
                DefaultRule(pattern.slots[i].pat, Under(value, pattern.slots[i].key))
    /\ Called /\ result.status = "ok" =>
          \A i \in DOMAIN pattern.params :
             pattern.params[i].type = "Defaulted" =>
                DefaultRule(pattern.params[i], IF i \in DOMAIN value THEN value[i] ELSE Unset)

\* [first = "DEFAULT", second = "DEFAULT"] against [null, undefined]
C1_Witness ==
    /\ DeclaredArray
    /\ value = Sequence(<<Null, Unset>>)
    /\ scope = <<<<"first", Null>>, <<"second", DEFAULT>>>>
    /\ result.log = <<"second">>

\* what a slot of an array pattern binds when the default rule is applied
SlotBinds(slot, m) ==
    IF slot.type = "Defaulted" /\ m = Unset THEN slot.expr.value ELSE m
NameOf(slot) == IF slot.type = "Defaulted" THEN slot.inner.name ELSE slot.name
GeneratedArray == DeclaredArray /\ pattern \in ArrayPatterns

\* C2 as stated: with at least as many elements as slots every slot binds v[i];
\* with fewer, the slots past the end bind their default, or undefined.
C2_Original ==
    GeneratedArray =>
       /\ result.status = "ok"
       /\ \A i \in DOMAIN pattern.slots :
             pattern.slots[i].type # "Skip" =>
                /\ Has(scope, NameOf(pattern.slots[i]))
                /\ Len(value.elems) >= Len(pattern.slots) =>
                      ValueOf(scope, NameOf(pattern.slots[i])) = value.elems[i]
                /\ i > Len(value.elems) =>
                      ValueOf(scope, NameOf(pattern.slots[i])) =
                         SlotBinds(pattern.slots[i], Unset)

\* C2, amended: every slot i within the sequence binds v[i], except that a
\* defaulted slot whose v[i] is undefined binds its default; every slot past the
\* end binds its default, or undefined when it has none.
C2_PositionalBinding ==
    GeneratedArray =>
       /\ result.status = "ok"
       /\ \A i \in DOMAIN pattern.slots :
             pattern.slots[i].type # "Skip" =>
                /\ Has(scope, NameOf(pattern.slots[i]))
                /\ ValueOf(scope, NameOf(pattern.slots[i])) =
                      SlotBinds(pattern.slots[i], ElementOf(value, i))

\* [first, second = "DEFAULT"] against ["Rohan"]: one element, two slots
C2_Witness ==
    /\ GeneratedArray
    /\ Len(pattern.slots) = 2
    /\ value = Sequence(<<Rohan>>)
    /\ scope = <<<<"first", Rohan>>, <<"second", DEFAULT>>>>

\* the pattern [first], bare and as a parameter with the fallback `= []`
OneSlotArray == ArrayPattern(<<Binding("first")>>, NoRest)
OneSlotArrayOrEmpty == [name |-> "safe", params |-> <<OrEmptySequence("param", OneSlotArray)>>]

\* C3 as stated: [x] against undefined or null fails; [x] = [] against undefined
\* or null succeeds with x undefined.
C3_Original ==
    /\ Done /\ mode = "declare" /\ pattern = OneSlotArray /\ value \in {Unset, Null} =>
          result.status = "NotDestructurable"
    /\ Called /\ pattern = OneSlotArrayOrEmpty /\ value \in {<<>>, <<Unset>>, <<Null>>} =>
          result.status = "ok" /\ scope = <<<<"first", Unset>>>>

\* C3, amended: [x] against undefined or null fails; [x] = [] against undefined
\* succeeds with x undefined, and against null still fails, because null does
\* not trigger the fallback.
C3_FallbackOnlyForUnset ==
    /\ Done /\ mode = "declare" /\ pattern = OneSlotArray /\ value \in {Unset, Null} =>
          result.status = "NotDestructurable" /\ scope = <<>>
    /\ Called /\ pattern = OneSlotArrayOrEmpty /\ value \in {<<>>, <<Unset>>} =>
          result.status = "ok" /\ scope = <<<<"first", Unset>>>>
    /\ Called /\ pattern = OneSlotArrayOrEmpty /\ value = <<Null>> =>
          result.status = "NotDestructurable" /\ scope = <<>>

\* f([first] = []) called as f(undefined)
C3_Witness ==
    /\ Called
    /\ pattern = OneSlotArrayOrEmpty
    /\ value = <<Unset>>
    /\ result.log = <<"param">>
    /\ scope = <<<<"first", Unset>>>>

\* a call of f(<object pattern> = {}) with no argument at the position
CalledSafeNoArg ==
    /\ Called
    /\ pattern.name = "safe"
    /\ pattern.params[1].inner.type = "ObjectPattern"
    /\ value = <<>>

\* whether a slot's pattern can take undefined: a leaf can; a nested pattern
\* only through a fallback its kind can destructure, and then its own slots
\* take undefined in turn
RECURSIVE TakesUnset(_)
TakesUnset(p) ==
    CASE IsLeaf(p) -> TRUE
      [] p.type = "Defaulted" /\ IsLeaf(p.inner) -> TRUE
      [] p.type = "Defaulted" /\ p.inner.type = "ObjectPattern" ->
            /\ p.expr.value \in {EmptyMapping, EmptySequence}
            /\ \A i \in DOMAIN p.inner.slots : TakesUnset(p.inner.slots[i].pat)
      [] p.type = "Defaulted" /\ p.inner.type = "ArrayPattern" ->
            /\ p.expr.value = EmptySequence
            /\ \A i \in DOMAIN p.inner.slots : TakesUnset(p.inner.slots[i])
      [] OTHER -> FALSE

KeysOf(entries) == {entries[i][1] : i \in DOMAIN entries}
PositionOf(entries, k) == CHOOSE i \in DOMAIN entries : entries[i][1] = k
WithRestObject == DeclaredObject /\ pattern.rest # NoRest /\ result.status = "ok"

\* C5: the rest name of an object pattern is bound to a new mapping holding
\* exactly the entries of the value whose key no named slot claims, with their
\* values, in the value's order, whatever the order of the slots.
C5_ObjectRest ==
    WithRestObject =>
       /\ Has(scope, pattern.rest)
       /\ LET r == ValueOf(scope, pattern.rest)
              claimed == {pattern.slots[i].key : i \in DOMAIN pattern.slots}
          IN /\ r.t = "Map"
             /\ KeysOf(r.entries) = KeysOf(value.entries) \ claimed
             /\ Cardinality(KeysOf(r.entries)) = Len(r.entries)
             /\ \A i \in DOMAIN r.entries : r.entries[i][2] = Under(value, r.entries[i][1])
             /\ \A i, j \in DOMAIN r.entries :
                   i < j => PositionOf(value.entries, r.entries[i][1])
                               < PositionOf(value.entries, r.entries[j][1])

\* { name, ...rest } against a mapping that holds name and one more key
C5_Witness ==
    /\ WithRestObject
    /\ Len(pattern.slots) = 1
    /\ Len(value.entries) >= 2
    /\ HasKey(value, pattern.slots[1].key)
    /\ ValueOf(scope, pattern.rest) # EmptyMapping
    /\ ValueOf(scope, pattern.rest) # value

WithRestArray == DeclaredArray /\ pattern.rest # NoRest /\ result.status = "ok"

\* C6: the rest name of an array pattern with n slots before it is bound to a
\* new sequence holding v[n], v[n+1], ... in order, the empty sequence when the
\* value has at most n elements.
C6_ArrayRest ==
    WithRestArray =>
       /\ Has(scope, pattern.rest)
       /\ LET r == ValueOf(scope, pattern.rest)
              n == Len(pattern.slots)
              len == Len(value.elems)
          IN /\ r.t = "Seq"
             /\ Len(r.elems) = (IF len > n THEN len - n ELSE 0)
             /\ \A j \in DOMAIN r.elems : r.elems[j] = value.elems[n + j]

\* [first, ...rest] against a sequence of three
C6_Witness ==
    /\ WithRestArray
    /\ Len(pattern.slots) = 1
    /\ value = Sequence(<<Num(0), Rohan, Null>>)
    /\ ValueOf(scope, pattern.rest) = Sequence(<<Rohan, Null>>)

Perms(n) == {f \in [1..n -> 1..n] : Injective(f)}
Permuted(p, f) == ObjectPattern([i \in DOMAIN p.slots |-> p.slots[f[i]]], p.rest)
BindingSet(bs) == {bs[i] : i \in DOMAIN bs}
\* a declaration starts from the state the script left: the counter as it was
Before == Start(result.count - Cardinality({i \in DOMAIN pattern.slots :
             /\ pattern.slots[i].pat.type = "Defaulted"
             /\ pattern.slots[i].pat.expr.kind = "counter"
             /\ Times(result.log, pattern.slots[i].pat.expr.id) = 1}))
SameOutcomePermuted ==
    \A f \in Perms(Len(pattern.slots)) :
       LET other == evaluate(Permuted(pattern, f), value, Before) IN
       /\ other.status = result.status
       /\ result.status = "ok" => BindingSet(other.bindings) = BindingSet(result.bindings)
LiteralDefaults ==
    \A i \in DOMAIN pattern.slots :
       pattern.slots[i].pat.type = "Defaulted" => pattern.slots[i].pat.expr.kind = "const"

Failed == result.status \notin {"ok", "none"}

\* C8 as stated: when a sub-pattern fails, nothing emitted before it is
\* returned or installed, in a declaration and in a reassignment alike.
C8_Original ==
    [][pc' = "done" /\ Failed' => scope' = <<>> /\ env' = env]_vars

\* C8, amended: a failing sub-pattern fails the whole evaluation with its own
\* failure; a declaration or a call then installs none of the bindings emitted
\* before the failure, but a reassignment has already overwritten the targets
\* of the slots matched before the failing one (every other target keeps its
\* old value).
C8_FailureInstallsNothingDeclared ==
    [][pc' = "done" /\ Failed' =>
          /\ result'.status \in {"NotDestructurable", "ReferenceError"}
          /\ scope' = <<>>
          /\ DOMAIN env' = DOMAIN env
          /\ \A n \in DOMAIN env :
                env'[n] = (IF Has(result'.bindings, n)
                           THEN ValueOf(result'.bindings, n) ELSE env[n])]_vars

\* const { name, db: { host } } = { name: "Rohan", db: null }
C8_Witness ==
    /\ Done /\ mode = "declare"
    /\ value = Mapping(<<<<"name", Rohan>>, <<"db", Null>>>>)
    /\ result.status = "NotDestructurable"
    /\ result.bindings = <<<<"name", Rohan>>>>
    /\ scope = <<>>

FlatObject ==
    \A i \in DOMAIN pattern.slots :
       IsLeaf(pattern.slots[i].pat) \/ IsDefaultedLeaf(pattern.slots[i].pat)
LeafName(p) == IF p.type = "Defaulted" THEN p.inner.name ELSE p.name
OnMissing(p) == IF p.type = "Defaulted" THEN DefaultResult(p.expr) ELSE Unset

C10_Swap ==
    [][pc = "block" /\ mode' = "swap" =>
          /\ result'.status = "ok"
          /\ env'["left"] = env["right"]
          /\ env'["right"] = env["left"]]_vars

\* left = "Tea", right = "Coffee" swapped
C10_Witness ==
    /\ Done /\ mode = "swap"
    /\ value = Sequence(<<Coffee, Tea>>)
    /\ env["left"] = Coffee
    /\ env["right"] = Tea

\* the names a statement bound, and the slots of an array pattern that are holes
Names(bs) == {bs[i][1] : i \in DOMAIN bs}
Holes(p) == {i \in DOMAIN p.slots : p.slots[i].type = "Skip"}

\* C11: a hole of an array pattern passes over exactly one position and binds
\* nothing: the names bound are those of the other slots (and the rest name),
\* the slot after a hole binds the element at its own position, and
\* [, , thirdColor] against any sequence binds only thirdColor, to v[2].
C11_SkipConsumesOnePosition ==
    /\ GeneratedArray =>
          /\ Names(scope) = {NameOf(pattern.slots[i]) : i \in DOMAIN pattern.slots \ Holes(pattern)}
                               \cup ({pattern.rest} \ {NoRest})
          /\ \A i \in DOMAIN pattern.slots \ Holes(pattern) :
                ValueOf(scope, NameOf(pattern.slots[i])) =
                   SlotBinds(pattern.slots[i], ElementOf(value, i))
    /\ DeclaredArray /\ pattern = ThirdColorPattern =>
          /\ result.status = "ok"
          /\ scope = <<<<"thirdColor", ElementOf(value, 3)>>>>

\* [, , thirdColor] against [0, null, "Rohan"]
C11_Witness ==
    /\ DeclaredArray
    /\ pattern = ThirdColorPattern
    /\ value = Sequence(<<Num(0), Null, Rohan>>)
    /\ scope = <<<<"thirdColor", Rohan>>>>

Renames(p) == {i \in DOMAIN p.slots : p.slots[i].pat.type = "Renamed"}
OrDefault(v, d) == IF v = Unset THEN d ELSE v

\* C12: a slot `sourceKey: name` of an object pattern binds name to the value
\* the mapping holds under sourceKey (undefined when the key is missing) and
\* binds no variable called sourceKey; in { name: fullName = "Unknown" } the
\* default is bound to fullName when name is missing or undefined, and any
\* other value under name, null included, is bound to fullName as is.
C12_RenamedBindsTarget ==
    /\ DeclaredObject /\ pattern \in ObjectPatterns =>
          \A i \in Renames(pattern) :
             LET slot == pattern.slots[i] IN
             /\ Has(scope, slot.pat.name)
             /\ ValueOf(scope, slot.pat.name) = Under(value, slot.key)
             /\ slot.pat.sourceKey = slot.key
             /\ slot.key \notin Names(scope)
    /\ Called /\ pattern = showProfile /\ Len(value) = 1 /\ value[1].t = "Map" =>
          /\ result.status = "ok"
          /\ scope = <<<<"fullName", OrDefault(Under(value[1], "name"), Unknown)>>,
                       <<"role", OrDefault(Under(value[1], "role"), Student)>>>>

\* showProfile({ age: 0, name: undefined })
C12_Witness ==
    /\ Called
    /\ pattern = showProfile
    /\ value = <<Mapping(<<<<"age", Num(0)>>, <<"name", Unset>>>>)>>
    /\ scope = <<<<"fullName", Unknown>>, <<"role", Student>>>>

\* the first argument of the call just made, undefined when there is none
FirstArgument == IF value = <<>> THEN Unset ELSE value[1]

\* C13 as stated: the three calls of lines 187-189 log 0, then 1, then 2.
C13_Original ==
    Done /\ mode = "calltime" => output = [i \in 1..Len(output) |-> Num(i - 1)]

\* C13, the rule itself: every call of testCallTime(value = count++) whose
\* argument is undefined evaluates count++ once, at that call: it logs the
\* current count and leaves count one higher; a call with another argument
\* does not evaluate it and leaves count alone.
C13_CallTimeEvaluation ==
    [][pattern' = testCallTime /\ mode' = "call" =>
          IF FirstArgument' = Unset
          THEN /\ result'.log = <<"value">>
               /\ output' = Append(output, Num(count))
               /\ count' = count + 1
          ELSE /\ result'.log = <<>>
               /\ output' = Append(output, FirstArgument')
               /\ count' = count]_vars

\* lines 187-189 have run: "default" three times, count still 0
C13_Witness ==
    /\ Done /\ mode = "calltime"
    /\ pattern = test
    /\ output = <<Default, Default, Default>>
    /\ result.log = <<"a">>
    /\ count = 0

\* testCallTime(); testCallTime(); testCallTime(); logs 0, 1, 2
C13_ThreeCalls ==
    /\ Called
    /\ pattern = testCallTime
    /\ output = <<Num(0), Num(1), Num(2)>>
    /\ count = 3

\* argument i of the call just made, undefined when it was not supplied
Argument(i) == IF i \in DOMAIN value THEN value[i] ELSE Unset
HelloRohan == Str(<<"H", "e", "l", "l", "o", " ", "R", "o", "h", "a", "n">>)

\* C14: parameters are bound left to right and a default reads what the
\* earlier parameters were bound to: welcome(n) binds name = n first and then
\* greeting = "Hello " followed by n, evaluating the template once;
\* welcome(n, g) with a greeting g binds it and never evaluates the template.
C14_DefaultReadsEarlierBindings ==
    Called /\ pattern = welcome =>
       /\ result.status = "ok"
       /\ IF Argument(2) = Unset
          THEN /\ scope = <<<<"name", Argument(1)>>,
                            <<"greeting", Str(HelloPrefix \o toChars(Argument(1)))>>>>
               /\ result.log = <<"greeting">>
               /\ Argument(1) = Rohan => ValueOf(scope, "greeting") = HelloRohan
               /\ Argument(1) = Null =>
                     ValueOf(scope, "greeting") = Str(HelloPrefix \o <<"n", "u", "l", "l">>)
          ELSE /\ scope = <<<<"name", Argument(1)>>, <<"greeting", Argument(2)>>>>
               /\ result.log = <<>>
       /\ output = <<ValueOf(scope, "greeting")>>

\* welcome("Rohan")
C14_Witness ==
    /\ Called
    /\ pattern = welcome
    /\ value = <<Rohan>>
    /\ scope = <<<<"name", Rohan>>, <<"greeting", HelloRohan>>>>
    /\ output = <<HelloRohan>>

\* the functions whose parameters are plain names, with or without a literal default
PlainFunctions == {test, introduceModern, calculateTotal}
ParameterBinds(param, a) ==
    IF param.type = "Defaulted" /\ a = Unset THEN param.expr.value ELSE a

\* C15: parameter i is bound against argument i when one was supplied at that
\* position and against undefined otherwise, each parameter on its own: a
\* missing (or undefined) argument takes the parameter's default, any other
\* supplied argument is kept; introduceModern() binds Guest / 18,
\* introduceModern("Rohan") binds Rohan / 18, introduceModern("Rohan", 0)
\* binds Rohan / 0.
C15_CallAdapter ==
    /\ Called /\ pattern \in PlainFunctions =>
          /\ result.status = "ok"
          /\ Len(scope) = Len(pattern.params)
          /\ \A i \in DOMAIN pattern.params :
                /\ scope[i][1] = NameOf(pattern.params[i])
                /\ scope[i][2] = ParameterBinds(pattern.params[i], Argument(i))
    /\ Called /\ pattern = introduceModern /\ value = <<>> =>
          scope = <<<<"name", Guest>>, <<"age", Num(DefaultAge)>>>>
    /\ Called /\ pattern = introduceModern /\ value = <<Rohan>> =>
          scope = <<<<"name", Rohan>>, <<"age", Num(DefaultAge)>>>>
    /\ Called /\ pattern = introduceModern /\ value = <<Rohan, Num(0)>> =>
          scope = <<<<"name", Rohan>>, <<"age", Num(0)>>>>
    /\ Called /\ pattern = calculateTotal /\ value = <<Num(100)>> =>
          scope = <<<<"price", Num(100)>>, <<"tax", Num(DefaultTax)>>>> /\ output = <<Num(105)>>

\* introduceModern("Rohan")
C15_Witness ==
    /\ Called
    /\ pattern = introduceModern
    /\ value = <<Rohan>>
    /\ scope = <<<<"name", Rohan>>, <<"age", Num(DefaultAge)>>>>

Binds(p) == {i \in DOMAIN p.slots : p.slots[i].type = "Binding"}
KeyBinds(p) == {i \in DOMAIN p.slots : p.slots[i].pat.type = "Binding"}

\* C16: a bare name never fails and binds the value it is given unchanged,
\* whatever the value: undefined, null, a scalar, an array or an object.
\* [data, error] against [object, null] binds error = null, { name } against
\* {} binds name = undefined, and a plain parameter binds any argument.
C16_BareBindingNeverFails ==
    /\ GeneratedArray =>
          /\ result.status = "ok"
          /\ \A i \in Binds(pattern) :
                /\ Has(scope, pattern.slots[i].name)
                /\ ValueOf(scope, pattern.slots[i].name) = ElementOf(value, i)
    /\ DeclaredObject /\ pattern \in ObjectPatterns =>
          /\ result.status = "ok"
          /\ \A i \in KeyBinds(pattern) :
                /\ Has(scope, pattern.slots[i].key)
                /\ ValueOf(scope, pattern.slots[i].key) = Under(value, pattern.slots[i].key)
    /\ DeclaredArray /\ pattern = DataErrorPattern =>
          /\ result.status = "ok"
          /\ scope = <<<<"data", ElementOf(value, 1)>>, <<"error", ElementOf(value, 2)>>>>
    /\ Called /\ pattern = welcome =>
          result.status = "ok" /\ scope[1] = <<"name", Argument(1)>>
    /\ Called /\ pattern = safeGreet2 /\ value \in {<<>>, <<EmptyMapping>>} =>
          result.status = "ok" /\ scope = <<<<"name", Unset>>>> /\ output = <<Unset>>

\* const [data, error] = fetchResult()
C16_Witness ==
    /\ DeclaredArray
    /\ pattern = DataErrorPattern
    /\ value = fetchResult
    /\ result.status = "ok"
    /\ ValueOf(scope, "data") = Mapping(<<<<"id", Num(1)>>, <<"name", Rohan>>>>)
    /\ ValueOf(scope, "error") = Null

\* a declaration with one of the generated one-level patterns
DeclaredFlatArray == Done /\ mode = "declare" /\ pattern \in ArrayPatterns
DeclaredFlatObject == Done /\ mode = "declare" /\ pattern \in ObjectPatterns
Scalars == {Num(0), EmptyStr, Rohan}
\* element i of a string is its character i
CharOf(v, i) == IF i \in DOMAIN v.chars THEN Str(<<v.chars[i]>>) ELSE Unset

C17_StringIterates ==
    /\ DeclaredFlatArray
    /\ value = Rohan
    /\ scope = <<<<"first", Str(<<"R">>)>>, <<"second", Str(<<"o">>)>>>>

\* the sequence cut off before position i, so that position i is missing
CutBefore(v, i) == Sequence(SubSeq(v.elems, 1, IF i - 1 < Len(v.elems) THEN i - 1 ELSE Len(v.elems)))
BoundTo(st, slot) == IF Has(st.bindings, NameOf(slot)) THEN ValueOf(st.bindings, NameOf(slot)) ELSE Unset
HelloGuest == Str(<<"H", "e", "l", "l", "o", " ", "G", "u", "e", "s", "t">>)

\* C18: a slot of an array pattern binds the same for a sequence that ends
\* before its position and for a sequence that holds undefined at its
\* position: its default when it has one, undefined otherwise, the default
\* evaluated once in both cases; greet([]) and greet([undefined]) both bind
\* name = "Guest".
C18_MissingSameAsUnset ==
    /\ GeneratedArray =>
          \A i \in DOMAIN pattern.slots \ Holes(pattern) :
             ElementOf(value, i) = Unset =>
                LET missing == evaluate(pattern, CutBefore(value, i), Start(0)) IN
                /\ missing.status = result.status
                /\ BoundTo(missing, pattern.slots[i]) = BoundTo(result, pattern.slots[i])
                /\ pattern.slots[i].type = "Defaulted" =>
                      /\ Times(missing.log, pattern.slots[i].expr.id) = 1
                      /\ Times(result.log, pattern.slots[i].expr.id) = 1
    /\ Called /\ pattern = greet /\ value \in {<<EmptySequence>>, <<Sequence(<<Unset>>)>>} =>
          /\ result.status = "ok"
          /\ scope = <<<<"name", Guest>>>>
          /\ output = <<HelloGuest>>

\* [first, second = "DEFAULT"] against [0, undefined, null]: position 2 holds undefined
C18_Witness ==
    /\ GeneratedArray
    /\ Len(pattern.slots) = 2
    /\ value = Sequence(<<Num(0), Unset, Null>>)
    /\ scope = <<<<"first", Num(0)>>, <<"second", DEFAULT>>>>
    /\ evaluate(pattern, Sequence(<<Num(0)>>), Start(0)).bindings = scope

\* greet([undefined])
C18_GreetUnset ==
    /\ Called
    /\ pattern = greet
    /\ value = <<Sequence(<<Unset>>)>>
    /\ output = <<HelloGuest>>

\* the pairs a declaration of pattern p against v produces
Pairs(p, v, c) == evaluate(p, v, Start(c)).bindings

C19_Declared ==
    /\ Done /\ mode = "declare"
    /\ pattern = ReassignPattern
    /\ value = Mapping(<<<<"country", Num(0)>>, <<"name", Null>>>>)
    /\ scope = <<<<"nameValue", Null>>, <<"countryValue", Num(0)>>>>

\* the value under key k of any value: undefined when it has no such property
ChildOf(v, k) == IF v.t = "Map" THEN Under(v, k) ELSE Unset
Present(v) == v.t \notin {"Unset", "Null"}
DeclaredSafeData == Done /\ mode = "declare" /\ pattern = SafeDataPattern /\ value.t = "Map"
DeclaredProfileData ==
    /\ Done /\ mode = "declare" /\ pattern = ProfileDataPattern
    /\ value.t = "Map" /\ ChildOf(value, "user").t = "Map"

\* C20: { user: { profile: { name = "Unknown" } = {} } = {} } against a mapping
\* in which user, or user.profile, or user.profile.name is missing or undefined
\* does not fail and binds name = "Unknown", each fallback on the way
\* evaluated once; with all three present name is the stored value and no
\* fallback is evaluated.  { user: { name, settings: { theme = "light" } = {} } }
\* against a user without settings binds theme = "light", and the stored theme
\* when the settings hold one.
C20_NestedFallbackChain ==
    /\ DeclaredSafeData =>
          LET user == ChildOf(value, "user")
              profile == ChildOf(user, "profile")
              name == ChildOf(profile, "name")
          IN /\ user = Unset =>
                   /\ result.status = "ok" /\ scope = <<<<"name", Unknown>>>>
                   /\ result.log = <<"user", "profile", "name">>
             /\ Present(user) /\ profile = Unset =>
                   /\ result.status = "ok" /\ scope = <<<<"name", Unknown>>>>
                   /\ result.log = <<"profile", "name">>
             /\ Present(user) /\ Present(profile) /\ name = Unset =>
                   /\ result.status = "ok" /\ scope = <<<<"name", Unknown>>>>
                   /\ result.log = <<"name">>
             /\ Present(user) /\ Present(profile) /\ name # Unset =>
                   /\ result.status = "ok" /\ scope = <<<<"name", name>>>>
                   /\ result.log = <<>>
    /\ DeclaredProfileData =>
          LET user == ChildOf(value, "user")
              settings == ChildOf(user, "settings")
              theme == ChildOf(settings, "theme")
          IN /\ settings = Unset =>
                   /\ result.status = "ok"
                   /\ scope = <<<<"name", ChildOf(user, "name")>>, <<"theme", Light>>>>
                   /\ result.log = <<"settings", "theme">>
             /\ Present(settings) =>
                   /\ result.status = "ok"
                   /\ scope = <<<<"name", ChildOf(user, "name")>>,
                                <<"theme", OrDefault(theme, Light)>>>>

\* the pattern of `data` against { user: {} }: profile is missing
C20_Witness ==
    /\ DeclaredSafeData
    /\ value = Mapping(<<<<"user", EmptyMapping>>>>)
    /\ result.log = <<"profile", "name">>
    /\ scope = <<<<"name", Unknown>>>>

\* const { user: { name, settings: { theme = "light" } = {} } } = { user: { name: "Rohan" } }
C20_SettingsMissing ==
    /\ DeclaredProfileData
    /\ value = Mapping(<<<<"user", Mapping(<<<<"name", Rohan>>>>)>>>>)
    /\ scope = <<<<"name", Rohan>>, <<"theme", Light>>>>

\* all three present: { user: { profile: { name: "Rohan" } } }
C20_AllPresent ==
    /\ DeclaredSafeData
    /\ scope = <<<<"name", Rohan>>>>
    /\ result.log = <<>>

CalledGreetingFirst == Called /\ pattern \in GreetingFirst

\* C21: a default expression that fails ends the evaluation at its slot with
\* its own failure: in f(greeting = `Hello ${name}`, name) called without a
\* greeting, the template reads name before it is bound; the call fails with
\* that ReferenceError, name is never matched, the default of name is never
\* evaluated, nothing is bound and the body does not run.  With a greeting
\* supplied the template is not evaluated and the call succeeds.
C21_DefaultFailureAborts ==
    CalledGreetingFirst =>
       IF Argument(1) = Unset
       THEN /\ result.status = "ReferenceError"
            /\ result.log = <<"greeting">>
            /\ result.bindings = <<>>
            /\ scope = <<>>
            /\ output = <<>>
       ELSE /\ result.status = "ok"
            /\ Times(result.log, "greeting") = 0
            /\ scope[1] = <<"greeting", Argument(1)>>
            /\ output = <<Argument(1)>>

\* f(greeting = `Hello ${name}`, name = "Guest") called as f(undefined, "Rohan")
C21_Witness ==
    /\ CalledGreetingFirst
    /\ pattern.params[2].type = "Defaulted"
    /\ value = <<Unset, Rohan>>
    /\ result.status = "ReferenceError"
    /\ result.log = <<"greeting">>
    /\ scope = <<>>

CalledMinMax == Done /\ mode = "minmax"
Elements(arr) == {arr.elems[i] : i \in DOMAIN arr.elems}

\* C23: getMinMax(arr) returns [min, max] in that order: for every non-empty
\* array of numbers min and max are elements of arr with min <= n <= max for
\* every element n, arr is the array that was passed, and [minValue, maxValue]
\* binds minValue to min and maxValue to max; [3, 10, 1, 8] gives 1 and 10.
C23_GetMinMax ==
    CalledMinMax /\ value[1].elems # <<>> =>
       LET arr == value[1]
           min == ValueOf(scope, "minValue")
           max == ValueOf(scope, "maxValue")
       IN /\ result.status = "ok"
          /\ scope[1][1] = "minValue" /\ scope[2][1] = "maxValue"
          /\ min \in Elements(arr) /\ max \in Elements(arr)
          /\ \A n \in Elements(arr) : min.n <= n.n /\ n.n <= max.n
          /\ closure["arr"] = arr
          /\ arr = Sequence(<<Num(3), Num(10), Num(1), Num(8)>>) =>
                min = Num(1) /\ max = Num(10)

\* getMinMax([3, 10, 1, 8])
C23_Witness ==
    /\ CalledMinMax
    /\ value = <<Sequence(<<Num(3), Num(10), Num(1), Num(8)>>)>>
    /\ scope = <<<<"minValue", Num(1)>>, <<"maxValue", Num(10)>>>>

RECURSIVE SumOf(_)
SumOf(args) == IF args = <<>> THEN 0 ELSE args[1].n + SumOf(Tail(args))
LastOf(s) == s[Len(s)]
Wallet == Done /\ mode = "wallet"
Box == Done /\ mode = "box"

\* C24: createWallet(s) returns [balance, addMoney] with balance = s, and after
\* the calls addMoney(a1) ... addMoney(ak) the enclosed balance, and the last
\* "New balance:" logged, is s + a1 + ... + ak, one line logged per call;
\* createBox(v) returns [v, updateValue], and after updateValue(n) the
\* enclosed value, and the last value logged, is n.
C24_WalletAndBox ==
    /\ Wallet =>
          /\ result.status = "ok"
          /\ result.bindings = <<<<"balance", value[1]>>, <<"addMoney", Fun("addMoney")>>>>
          /\ closure["balance"] = Num(SumOf(value))
          /\ Len(output) = Len(value) - 1
          /\ output # <<>> => LastOf(output) = Line("New balance:", Num(SumOf(value)))
    /\ Box =>
          /\ result.status = "ok"
          /\ result.bindings = <<<<"boxValue", value[1]>>, <<"updateBox", Fun("updateValue")>>>>
          /\ closure["value"] = LastOf(value)
          /\ Len(output) = Len(value) - 1
          /\ output # <<>> => LastOf(output) = Line("Box value updated to:", LastOf(value))

\* createWallet(100), then addMoney(50) logs 150
C24_Witness ==
    /\ Wallet
    /\ value = <<Num(100), Num(50)>>
    /\ output = <<Line("New balance:", Num(150))>>
    /\ closure["balance"] = Num(150)

\* C27: the first name destructured from createBox / createWallet holds what
\* the enclosed variable held when the function returned: whatever calls of
\* updateBox or addMoney follow, boxValue stays the initial value and balance
\* the start amount, while the enclosed variable follows the calls.
C27_DestructuredIsSnapshot ==
    /\ Box => scope = <<<<"boxValue", value[1]>>, <<"updateBox", Fun("updateValue")>>>>
    /\ Wallet => scope = <<<<"balance", value[1]>>, <<"addMoney", Fun("addMoney")>>>>

\* createBox(50), then updateBox(75): boxValue is 50, the box holds 75
C27_Witness ==
    /\ Box
    /\ value = <<Num(50), Num(75)>>
    /\ ValueOf(scope, "boxValue") = Num(50)
    /\ closure["value"] = Num(75)

(***************************************************************************)
(* C25.  The declaration rules of var, let and const: a let or const       *)
(* declaration of a name already declared in the same scope is rejected    *)
(* and changes nothing; a var declaration of a name already declared with  *)
(* var is accepted and the name then holds the new value; assigning to a   *)
(* var or let variable gives it the new value, assigning to a const is     *)
(* rejected and the value stays; after the closing brace of a block the    *)
(* name refers to what it referred to outside the block, so a let or       *)
(* const declared in the block is not accessible and a var declared in     *)
(* the block is, with its value.                                           *)
(***************************************************************************)
StatementRan == mode' = "vars" /\ pc' \in {"vars", "rejected"}
Accessible(st, name) ==
    \/ st.fn[name].kind # "none"
    \/ st.inBlock /\ st.blk[name].kind \in Lexical
HeldBy(st, name) ==
    IF st.inBlock /\ st.blk[name].kind \in Lexical THEN st.blk[name].value ELSE st.fn[name].value
DeclaredAs(st, name) ==
    IF st.inBlock /\ st.blk[name].kind \in Lexical THEN st.blk[name].kind ELSE st.fn[name].kind
DeclaredHere(st, name) ==
    IF st.inBlock THEN st.blk[name].kind # "none" ELSE st.fn[name].kind # "none"
SameVariables(a, b) == a.fn = b.fn /\ a.blk = b.blk /\ a.inBlock = b.inBlock
C25_DeclarationRules ==
    [][StatementRan =>
        LET stmt == store'.last
        IN /\ stmt.op = "declare" /\ stmt.kind \in Lexical /\ DeclaredHere(store, stmt.name)
               => store'.error = "SyntaxError" /\ SameVariables(store, store')
           /\ stmt.op = "declare" /\ stmt.kind \in Lexical /\ ~DeclaredHere(store, stmt.name)
               => /\ store'.error = "none"
                  /\ DeclaredAs(store', stmt.name) = stmt.kind
                  /\ HeldBy(store', stmt.name) = stmt.value
           /\ stmt.op = "declare" /\ stmt.kind = "var" /\ DeclaredAs(store, stmt.name) = "var"
               => /\ store'.error = "none"
                  /\ DeclaredAs(store', stmt.name) = "var"
                  /\ HeldBy(store', stmt.name) = stmt.value
           /\ stmt.op = "assign" /\ DeclaredAs(store, stmt.name) \in {"var", "let"}
               => /\ store'.error = "none"
                  /\ DeclaredAs(store', stmt.name) = DeclaredAs(store, stmt.name)
                  /\ HeldBy(store', stmt.name) = stmt.value
           /\ stmt.op = "assign" /\ DeclaredAs(store, stmt.name) = "const"
               => store'.error = "TypeError" /\ SameVariables(store, store')
           /\ stmt.op = "leave"
               => \A name \in VarNames :
                    /\ Accessible(store', name) <=> store.fn[name].kind # "none"
                    /\ store.blk[name].kind \in Lexical
                        => store'.fn[name] = store.fn[name]
                    /\ store.blk[name].kind = "var"
                        => /\ Accessible(store', name)
                           /\ DeclaredAs(store', name) = "var"
                           /\ HeldBy(store', name) = HeldBy(store, name)]_vars
\* let score = 10; let score = 20; is rejected: score is still the let holding 10
C25_Witness ==
    /\ store.last = [op |-> "declare", kind |-> "let", name |-> "score", value |-> Num(20)]
    /\ store.error = "SyntaxError"
    /\ ~store.inBlock
    /\ store.fn["score"] = [kind |-> "let", value |-> Num(10)]
\* if (true) { let score = 10; } : score is not accessible after the block
C25_BlockLetGone ==
    /\ store.last.op = "leave"
    /\ ~Accessible(store, "score")
\* if (true) { var score = 10; } : score is accessible after the block
C25_BlockVarStays ==
    /\ store.last.op = "leave"
    /\ store.fn["score"] = [kind |-> "var", value |-> Num(10)]

(***************************************************************************)
(* C26.  A `= {}` fallback does not protect against null: a function whose *)
(* parameter is { ... } = {} called with null, and                         *)
(* { user: { profile: { name = "Unknown" } = {} } = {} } declared against  *)
(* { user: null } or { user: { profile: null } }, fail with                *)
(* NotDestructurable, bind nothing and evaluate no default.                *)
(***************************************************************************)
GuardedFunctions == {safeGreet, safeGreet2, showProfile, connectDatabase}
NullAt(v) ==
    \/ ChildOf(v, "user") = Null
    \/ ChildOf(ChildOf(v, "user"), "profile") = Null
C26_FallbackNotForNull ==
    /\ Called /\ pattern \in GuardedFunctions /\ Len(value) >= 1 /\ value[1] = Null =>
          result.status = "NotDestructurable" /\ scope = <<>> /\ result.log = <<>>
    /\ DeclaredSafeData /\ NullAt(value) =>
          result.status = "NotDestructurable" /\ scope = <<>> /\ result.log = <<>>
\* safeGreet(null)
C26_Witness ==
    /\ Called /\ pattern = safeGreet /\ value = <<Null>>
    /\ result.status = "NotDestructurable"
\* const { user: { profile: { name = "Unknown" } = {} } = {} } = { user: { profile: null } }
C26_ProfileNull ==
    /\ DeclaredSafeData
    /\ value = Mapping(<<<<"user", Mapping(<<<<"profile", Null>>>>)>>>>)
    /\ result.status = "NotDestructurable"

(***************************************************************************)
(* C28.  value || fallback before a pattern: when maybeArray / obj is      *)
(* undefined, null or another falsy scalar (0, "", NaN) the pattern is     *)
(* matched against the fallback [] / {}, so the declaration succeeds and   *)
(* the leaf takes its default: safeValue = "No value", a = "default".      *)
(***************************************************************************)
DeclaredGuarded == Done /\ mode = "guard"
FalsyScalars == {Unset, Null, Num(0), EmptyStr, NaN}
C28_OrFallbackGuards ==
    DeclaredGuarded /\ value \in FalsyScalars =>
        /\ result.status = "ok"
        /\ pattern = SafeValuePattern => scope = <<<<"safeValue", NoValue>>>>
        /\ pattern = ADefaultPattern => scope = <<<<"a", Default>>>>
\* const maybeArray = null; const [safeValue = "No value"] = maybeArray || [];
C28_Witness ==
    /\ DeclaredGuarded /\ pattern = SafeValuePattern /\ value = Null
    /\ scope = <<<<"safeValue", NoValue>>>>
\* a truthy value is matched itself: const [safeValue = "No value"] = 10 || [] fails
C28_TruthyKept ==
    /\ DeclaredGuarded /\ pattern = SafeValuePattern /\ value = Num(10)
    /\ result.status = "NotDestructurable"

(***************************************************************************)
(* C29.  Matching a pattern with a rest slot reads its source and leaves   *)
(* it as it was: after const { id, ...publicProfile } = employee and       *)
(* const [firstScore, secondScore, ...restScores] = scores the source      *)
(* variable holds the same keys / elements with the same values in the     *)
(* same order as before, so employee still has the id the named slot       *)
(* bound, while the rest container holds only what no named slot claimed.  *)
(***************************************************************************)
Destructured == pc = "source" /\ pc' = "done"
SourceOf(e) == e[CHOOSE n \in DOMAIN e : TRUE]
C29_SourceUntouched ==
    [][Destructured =>
        LET before == SourceOf(env)
            after == SourceOf(env')
        IN /\ DOMAIN env' = DOMAIN env
           /\ after.t = before.t
           /\ before.t = "Map" =>
                /\ Len(after.entries) = Len(before.entries)
                /\ \A i \in DOMAIN before.entries : after.entries[i] = before.entries[i]
                /\ HasKey(before, "id") =>
                      /\ HasKey(after, "id")
                      /\ scope'[1] = <<"id", Under(after, "id")>>
                      /\ ~HasKey(scope'[2][2], "id")
           /\ before.t = "Seq" =>
                /\ Len(after.elems) = Len(before.elems)
                /\ \A i \in DOMAIN before.elems : after.elems[i] = before.elems[i]
           /\ pattern' = pattern]_vars
\* employee = { id: 101, name: "Ayesha" } still has id after { id, ...publicProfile } = employee
C29_Witness ==
    /\ Done /\ mode = "source" /\ pattern = EmployeePattern
    /\ env["employee"] = Mapping(<<<<"id", Num(101)>>, <<"name", Ayesha>>>>)
    /\ scope = <<<<"id", Num(101)>>, <<"publicProfile", Mapping(<<<<"name", Ayesha>>>>)>>>>
\* scores = [80, 90, 80] is whole after [firstScore, secondScore, ...restScores] = scores
C29_ScoresWhole ==
    /\ Done /\ mode = "source" /\ pattern = ScoresPattern
    /\ env["scores"] = Sequence(<<Num(80), Num(90), Num(80)>>)
    /\ scope = <<<<"firstScore", Num(80)>>, <<"secondScore", Num(90)>>,
                 <<"restScores", Sequence(<<Num(80)>>)>>>>

(***************************************************************************)
(* C30.  The names a successful declaration or call binds are fixed by the *)
(* pattern alone: they are the names of its Binding / Renamed leaves and   *)
(* its rest names, in pattern order, each bound exactly once, whatever the *)
(* value holds.  A flat pattern matched against an array or object never   *)
(* fails because of keys no slot claims or elements beyond the last slot:  *)
(* showTitle({ title: "ES6 Course", level: "Beginner" }) binds title only. *)
(***************************************************************************)
RECURSIVE LeafNames(_), SlotLeafNames(_, _)
LeafNames(p) ==
    CASE p.type \in {"Binding", "Renamed"} -> <<p.name>>
      [] p.type = "Skip" -> <<>>
      [] p.type = "Defaulted" -> LeafNames(p.inner)
      [] OTHER -> SlotLeafNames(p.slots, 1) \o (IF p.rest = NoRest THEN <<>> ELSE <<p.rest>>)
SlotLeafNames(slots, i) ==
    IF i > Len(slots) THEN <<>>
    ELSE LeafNames(IF "pat" \in DOMAIN slots[i] THEN slots[i].pat ELSE slots[i])
         \o SlotLeafNames(slots, i + 1)
RECURSIVE ParameterNames(_, _)
ParameterNames(params, i) ==
    IF i > Len(params) THEN <<>> ELSE LeafNames(params[i]) \o ParameterNames(params, i + 1)
BoundNames == [i \in DOMAIN scope |-> scope[i][1]]
Matched == Done /\ mode \in {"declare", "guard", "source", "minmax", "box", "wallet"}
ExtraKeys == KeysOf(value.entries) \ {pattern.slots[i].key : i \in DOMAIN pattern.slots}
C30_NamesFromPattern ==
    /\ Matched /\ result.status = "ok" =>
          /\ BoundNames = LeafNames(pattern)
          /\ Cardinality(Names(scope)) = Len(scope)
    /\ Done /\ mode \in {"call", "calltime"} /\ result.status = "ok" =>
          /\ BoundNames = ParameterNames(pattern.params, 1)
          /\ Cardinality(Names(scope)) = Len(scope)
    /\ DeclaredFlatObject /\ value.t = "Map" => result.status = "ok"
    /\ DeclaredFlatArray /\ value.t = "Seq" => result.status = "ok"
    /\ Called /\ pattern = showTitle /\ Len(value) = 1 =>
          /\ result.status = "ok"
          /\ scope = <<<<"title", Under(value[1], "title")>>>>
\* showTitle({ title: "ES6 Course", level: "Beginner" })
C30_Witness ==
    /\ Called /\ pattern = showTitle
    /\ value = <<Mapping(<<<<"title", ES6Course>>, <<"level", Beginner>>>>)>>
    /\ scope = <<<<"title", ES6Course>>>>
\* const { name } = { name: ..., age: ... } and const [first] = [a, b, c]
C30_UnclaimedKey ==
    /\ DeclaredFlatObject /\ value.t = "Map" /\ pattern.rest = NoRest
    /\ ExtraKeys # {} /\ Len(pattern.slots) = 1
    /\ result.status = "ok" /\ Len(scope) = 1
C30_ExtraElements ==
    /\ DeclaredFlatArray /\ value.t = "Seq" /\ pattern.rest = NoRest
    /\ Len(value.elems) = 3 /\ Len(pattern.slots) = 2 /\ Len(scope) = 2

====
